---- MODULE Spec2Model ----
(***************************************************************************)
(* BigQueryValueSetManager (google/fhir/views/bigquery_value_set_manager). *)
(* The manager provisions the value set codes table, turns a stream of     *)
(* expanded value sets into batched insert statements and executes them    *)
(* one after the other through the BigQuery client.                        *)
(***************************************************************************)
EXTENDS Integers, Sequences, FiniteSets, TLC

\* ------------------------------------------------------------------ bounds
\* Largest total weight of the value sets one behaviour feeds to the manager
\* (a value set weighs its number of codes; an expansion without codes
\* weighs MaxRows - 1, so that it occurs beside a value set with codes).
MaxRows == 3
\* Largest explicit batch_size argument (the default is always offered too).
MaxBatchSize == 2
\* Largest number of materialize calls in one behaviour.
MaxCalls == 2
\* batch_size: int = 500
DefaultBatchSize == 500

\* ------------------------------------------------------------- data model
NoVersion == "<absent>"
Uris == {"http://x/vs1"}
Versions == {NoVersion, "1"}
Codings == {<<"sys1", "a">>, <<"sys2", "b">>}

\* A row of the codes table: valueseturi, valuesetversion, system, code.
AllRows == {<<u, v, c[1], c[2]>> : u \in Uris, v \in Versions, c \in Codings}

Range(s) == {s[i] : i \in 1..Len(s)}

RECURSIVE SeqsUpTo(_, _)
SeqsUpTo(S, n) ==
  IF n = 0 THEN {<<>>}
  ELSE LET shorter == SeqsUpTo(S, n - 1)
       IN shorter \cup {Append(s, x) : s \in {t \in shorter : Len(t) = n - 1}, x \in S}

\* An expanded ValueSet proto: url, version and expansion.contains.
ValueSets ==
  [url : Uris, version : Versions, contains : SeqsUpTo(Codings, MaxRows)]

Weight(vs) == IF vs.contains = <<>> THEN MaxRows - 1 ELSE Len(vs.contains)

RECURSIVE TotalWeight(_)
TotalWeight(vss) ==
  IF vss = <<>> THEN 0 ELSE Weight(Head(vss)) + TotalWeight(Tail(vss))

RECURSIVE InputsOfWeight(_)
InputsOfWeight(w) ==
  {<<>>} \cup
  UNION {{<<vs>> \o rest : rest \in InputsOfWeight(w - Weight(vs))} :
           vs \in {v \in ValueSets : Weight(v) <= w}}

\* The inputs of total weight at most w, for every w a behaviour can ask for.
InputsWithin == [w \in 0..MaxRows |-> InputsOfWeight(w)]

BatchSizes == (1..MaxBatchSize) \cup {DefaultBatchSize}

\* ------------------------------------------------------------------ state
VARIABLES
  tableExists,   \* whether value_set_codes_table exists in the warehouse
  table,         \* its rows, as a bag: row -> number of physical copies
  pc,            \* "idle" | "running" | "returned" | "raised"
  op,            \* the public method of the call in progress
  expander,      \* "resolver" | "client" | "none"
  serviceUrl,    \* terminology_service_url: "given" | "absent"
  input,         \* the value sets (or, per url, their expansions) of the call
  batch_size,    \* the call's batch_size argument
  pulled,        \* how many value sets the row generator has consumed
  cur,           \* rows of the value set being consumed, not yet batched
  buffer,        \* rows of the batch being formed / awaiting execution
  inserts,       \* insert statements executed by this call, in order
  expanderLog,   \* expansion requests received by the expander, in order:
                 \* the method called, the url, the url's position in urls
  createCalls,   \* create_table requests of this call
  error,         \* the exception that ended the call, "none" otherwise
  log,           \* finished calls: input, outcome, table before and after
  fed,           \* the distinct inputs given so far, concatenated
  runs           \* the calls of independent callers that share the table:
                 \* per caller its position, generator and statements

vars == <<tableExists, table, pc, op, expander, serviceUrl, input, batch_size,
          pulled, cur, buffer, inserts, expanderLog, createCalls, error, log, fed,
          runs>>

\* The callers of the concurrent specification.
Runs == {1, 2}

\* A caller that has not called yet.
IdleRun ==
  [pc |-> "idle", input |-> <<>>, batch_size |-> DefaultBatchSize,
   pulled |-> 0, cur |-> <<>>, buffer |-> <<>>, pending |-> <<>>,
   inserts |-> <<>>, provisioned |-> "none",
   found |-> [exists |-> FALSE, rows |-> <<>>], got |-> <<>>]

EmptyTable == [r \in AllRows |-> 0]

RowSet(t) == {r \in AllRows : t[r] > 0}

\* A row some earlier writer has put into the table.
PreRow == <<"http://x/vs1", NoVersion, "sys1", "a">>

\* The table a first call may find: one holding PreRow (an existing table
\* without rows is what any call leaves of an absent one).
PreTables == {[EmptyTable EXCEPT ![PreRow] = 1]}

Init ==
  /\ tableExists \in BOOLEAN
  /\ table \in (IF tableExists THEN PreTables ELSE {EmptyTable})
  /\ pc = "idle"
  /\ op = "none"
  /\ expander = "none"
  /\ serviceUrl = "absent"
  /\ input = <<>>
  /\ batch_size = DefaultBatchSize
  /\ pulled = 0
  /\ cur = <<>>
  /\ buffer = <<>>
  /\ inserts = <<>>
  /\ expanderLog = <<>>
  /\ createCalls = 0
  /\ error = "none"
  /\ log = <<>>
  /\ fed = <<>>
  /\ runs = [w \in Runs |-> IdleRun]

\* ------------------------------------------------- the row / batch pipeline
\* One code row per (system, code) of the expansion, tagged with the value
\* set's url and version, in expansion order.
RowsOf(vs) ==
  [i \in 1..Len(vs.contains) |->
     <<vs.url, vs.version, vs.contains[i][1], vs.contains[i][2]>>]

RECURSIVE RowStream(_)
RowStream(vss) ==
  IF vss = <<>> THEN <<>> ELSE RowsOf(Head(vss)) \o RowStream(Tail(vss))

Min(a, b) == IF a <= b THEN a ELSE b

\* The lazy row generator, run as far as it gets without an external call:
\* it moves rows of the current value set into the batch until the batch
\* holds b rows, and takes the next value set when the current one is used
\* up. Value set protos given by the caller are taken as they come; a url
\* has to be expanded first, which is a step of its own (ExpandUrl).
RECURSIVE Advance(_, _, _, _, _, _)
Advance(o, vss, b, buf, c, p) ==
  IF Len(buf) < b /\ c # <<>>
  THEN LET k == Min(b - Len(buf), Len(c))
       IN Advance(o, vss, b, buf \o SubSeq(c, 1, k), SubSeq(c, k + 1, Len(c)), p)
  ELSE IF Len(buf) < b /\ p < Len(vss) /\ o = "materialize_value_sets"
  THEN Advance(o, vss, b, buf, RowsOf(vss[p + 1]), p + 1)
  ELSE [buffer |-> buf, cur |-> c, pulled |-> p]

\* The generator has nothing left to yield.
Exhausted(vss, g) ==
  g.buffer = <<>> /\ g.cur = <<>> /\ g.pulled = Len(vss)

\* The generator has a batch to yield: b rows, or the rest of the stream.
BatchReady(vss, b, g) ==
  /\ g.buffer # <<>>
  /\ Len(g.buffer) = b \/ (g.cur = <<>> /\ g.pulled = Len(vss))

\* A statement that appends the rows of its batch without a look at the table.
BlindAppend(t, batch) == Range(batch)

\* A set difference on (valueseturi, system, code): a row is taken to be in
\* the table when the table holds it under any version.
VersionBlindNewRows(t, batch) ==
  {r \in Range(batch) : \A v \in Versions : t[<<r[1], v, r[3], r[4]>>] = 0}

\* The rows one insert statement adds: the distinct rows of the batch with
\* no equal (valueseturi, valuesetversion, system, code) row in the table.
NewRows(t, batch) == {r \in Range(batch) : t[r] = 0}

Occurrences(batch, r) == Cardinality({i \in 1..Len(batch) : batch[i] = r})

\* A statement that compares the nullable version column with "=": a row
\* without version never equals a row of the table.
NullUnsafeInsert(t, batch) ==
  [r \in AllRows |->
     IF r \in Range(batch) /\ (t[r] = 0 \/ r[2] = NoVersion) THEN t[r] + 1 ELSE t[r]]

\* A statement that keeps every copy of a row of its batch (UNION ALL).
UnionAllInsert(t, batch) ==
  [r \in AllRows |-> IF t[r] = 0 THEN Occurrences(batch, r) ELSE t[r]]

\* The table after the insert statement of a batch has run.
InsertStatement(t, batch) ==
  [r \in AllRows |-> IF r \in NewRows(t, batch) THEN t[r] + 1 ELSE t[r]]

\* --------------------------------------------------------------- warehouse
\* A provisioner that replaces an existing table by a new one.
DropAndCreateTable(exists, t) == [exists |-> TRUE, rows |-> EmptyTable]

\* client.create_table(table, exists_ok=True): an existing table is returned
\* as it is, an absent one is created without rows.
CreateTableIfNotExists(exists, t) ==
  [exists |-> TRUE, rows |-> IF exists THEN t ELSE EmptyTable]

\* ------------------------------------------------------------- environment
Last(q) == q[Len(q)]

\* The inputs a caller may pass next: the input of its previous call once
\* more (a re-run), or, when that call returned, a value set it has not
\* passed before (or none). A re-run is the last call of a behaviour, and so
\* is a call of materialize_value_set_expansion.
Offered ==
  IF log = <<>> THEN InputsWithin[MaxRows]
  ELSE IF op = "materialize_value_set_expansion" THEN {}
  ELSE IF Len(log) >= 2 /\ Last(log).input = log[Len(log) - 1].input THEN {}
  ELSE {Last(log).input} \cup
       (IF Last(log).outcome = "returned"
        THEN {vss \in InputsWithin[MaxRows - TotalWeight(fed)] : Len(vss) <= 1}
        ELSE {})

\* A caller keeps the batch size of its first call.
OfferedBatchSizes == IF log = <<>> THEN BatchSizes ELSE {batch_size}

IsRerun(vss) == log # <<>> /\ vss = Last(log).input

\* Book-keeping at the entry of either public method.
Enter(o, e, s, vss, b) ==
  /\ pc # "running"
  /\ Len(log) < MaxCalls
  /\ op' = o
  /\ expander' = e
  /\ serviceUrl' = s
  /\ input' = vss
  /\ batch_size' = b
  /\ inserts' = <<>>
  /\ expanderLog' = <<>>
  /\ fed' = IF IsRerun(vss) THEN fed ELSE fed \o vss
  /\ UNCHANGED runs

\* The record of a call, opened at its entry and kept up to date at each step.
Outcome(o, err, after) ==
  Append(log, [input |-> input', batch_size |-> batch_size', outcome |-> o,
               error |-> err, before |-> table, after |-> after])

Finish(o, err, after) ==
  [log EXCEPT ![Len(log)].outcome = o, ![Len(log)].error = err,
              ![Len(log)].after = after]

\* A loop that leaves after its first turn.
LeaveAfterFirst(vss, g) == "returned"

\* for query in queries: the loop goes on until the generator is exhausted.
ControlAfter(vss, g) == IF Exhausted(vss, g) THEN "returned" ELSE "running"

\* A call that leaves batch_size at its default.
IgnoredBatchSize(b) == DefaultBatchSize

\* A call that has every row inserted by a statement of its own.
SingleRowBatches(b) == 1

\* valueset_codes_insert_statement_for(..., batch_size=batch_size)
StatementBatchSize(b) == b

\* ----------------------------------------------------------------- actions
\* A method that goes to its statements without provisioning the table.
WithoutProvisioning(o, vss, b) ==
  LET g == Advance(o, vss, StatementBatchSize(b), <<>>, <<>>, 0)
  IN /\ createCalls' = 0
     /\ buffer' = g.buffer
     /\ cur' = g.cur
     /\ pulled' = g.pulled
     /\ pc' = ControlAfter(vss, g)
     /\ error' = "none"
     /\ log' = Outcome(pc', "none", table)
     /\ UNCHANGED <<tableExists, table>>

\* materialize_value_sets up to its first external call after provisioning:
\* the table is provisioned, the statement generator is created and the loop
\* asks it for the first statement.
Materialize(o, vss, b) ==
  LET created == CreateTableIfNotExists(tableExists, table)
      g == Advance(o, vss, StatementBatchSize(b), <<>>, <<>>, 0)
  IN /\ createCalls' = 1
     /\ \/ /\ tableExists' = created.exists
           /\ table' = created.rows
           /\ buffer' = g.buffer
           /\ cur' = g.cur
           /\ pulled' = g.pulled
           /\ pc' = ControlAfter(vss, g)
           /\ error' = "none"
           /\ log' = Outcome(pc', "none", created.rows)
        \/ \* create_table raises
           /\ pc' = "raised"
           /\ error' = "WarehouseError"
           /\ buffer' = <<>>
           /\ cur' = <<>>
           /\ pulled' = 0
           /\ log' = Outcome("raised", "WarehouseError", table)
           /\ UNCHANGED <<tableExists, table>>

MaterializeValueSets(vss, b) ==
  /\ Enter("materialize_value_sets", "none", "absent", vss, b)
  /\ Materialize("materialize_value_sets", vss, b)

\* A method without the check of its arguments.
NoArgumentCheck(e, s) == FALSE

\* terminology_service_url is given and expander is no TerminologyServiceClient
InvalidArguments(e, s) == s = "given" /\ e # "client"

\* A dispatch on the type of the expander alone.
ServiceForEveryClient(e, s) ==
  IF e = "client"
  THEN "expand_value_set_url_using_service"
  ELSE "expand_value_set_url"

\* The expander method the generator expression calls per url.
ExpansionMethod(e, s) ==
  IF s = "given" /\ e = "client"
  THEN "expand_value_set_url_using_service"
  ELSE "expand_value_set_url"

MaterializeValueSetExpansion(vss, e, s, b) ==
  /\ log = <<>>
  /\ Enter("materialize_value_set_expansion", e, s, vss, b)
  /\ IF InvalidArguments(e, s)
     THEN /\ pc' = "raised"
          /\ error' = "TypeError"
          /\ createCalls' = 0
          /\ buffer' = <<>>
          /\ cur' = <<>>
          /\ pulled' = 0
          /\ log' = Outcome("raised", "TypeError", table)
          /\ UNCHANGED <<tableExists, table>>
     ELSE Materialize("materialize_value_set_expansion", vss, b)

\* An adapter that expands a url whether or not the batch at hand has room,
\* as one that collects the expansions in a list would.
ExpandUrlEagerly ==
  /\ pc = "running"
  /\ op = "materialize_value_set_expansion"
  /\ pulled < Len(input)
  /\ LET vs == input[pulled + 1]
         g == Advance(op, input, StatementBatchSize(batch_size), buffer,
                      cur \o RowsOf(vs), pulled + 1)
     IN /\ expanderLog' =
             Append(expanderLog,
                    <<ExpansionMethod(expander, serviceUrl), vs.url, pulled + 1>>)
        /\ \/ /\ buffer' = g.buffer
              /\ cur' = g.cur
              /\ pulled' = g.pulled
              /\ pc' = ControlAfter(input, g)
              /\ log' = Finish(pc', "none", table)
              /\ UNCHANGED error
           \/ /\ pc' = "raised"
              /\ error' = "ExpansionError"
              /\ log' = Finish("raised", "ExpansionError", table)
              /\ UNCHANGED <<buffer, cur, pulled>>
  /\ UNCHANGED <<tableExists, table, op, expander, serviceUrl, input, batch_size,
                 inserts, createCalls, fed, runs>>

\* An adapter that passes over a url whose expansion fails and goes on with
\* the next.
ExpandUrlSkippingFailures ==
  /\ pc = "running"
  /\ op = "materialize_value_set_expansion"
  /\ Len(buffer) < StatementBatchSize(batch_size)
  /\ cur = <<>>
  /\ pulled < Len(input)
  /\ LET vs == input[pulled + 1]
         g == Advance(op, input, StatementBatchSize(batch_size), buffer,
                      RowsOf(vs), pulled + 1)
         skip == Advance(op, input, StatementBatchSize(batch_size), buffer,
                         <<>>, pulled + 1)
     IN /\ expanderLog' =
             Append(expanderLog,
                    <<ExpansionMethod(expander, serviceUrl), vs.url, pulled + 1>>)
        /\ \/ /\ buffer' = g.buffer
              /\ cur' = g.cur
              /\ pulled' = g.pulled
              /\ pc' = ControlAfter(input, g)
              /\ log' = Finish(pc', "none", table)
              /\ UNCHANGED error
           \/ /\ buffer' = skip.buffer
              /\ cur' = skip.cur
              /\ pulled' = skip.pulled
              /\ pc' = ControlAfter(input, skip)
              /\ error' = "ExpansionError"
              /\ log' = Finish(pc', "ExpansionError", table)
  /\ UNCHANGED <<tableExists, table, op, expander, serviceUrl, input, batch_size,
                 inserts, createCalls, fed, runs>>

\* The generator takes the next url and has the expander expand it.
ExpandUrl ==
  /\ pc = "running"
  /\ op = "materialize_value_set_expansion"
  /\ Len(buffer) < StatementBatchSize(batch_size)
  /\ cur = <<>>
  /\ pulled < Len(input)
  /\ LET vs == input[pulled + 1]
         g == Advance(op, input, StatementBatchSize(batch_size), buffer,
                      RowsOf(vs), pulled + 1)
     IN /\ expanderLog' =
             Append(expanderLog,
                    <<ExpansionMethod(expander, serviceUrl), vs.url, pulled + 1>>)
        /\ \/ /\ buffer' = g.buffer
              /\ cur' = g.cur
              /\ pulled' = g.pulled
              /\ pc' = ControlAfter(input, g)
              /\ log' = Finish(pc', "none", table)
              /\ UNCHANGED error
           \/ \* the expansion fails
              /\ pc' = "raised"
              /\ error' = "ExpansionError"
              /\ log' = Finish("raised", "ExpansionError", table)
              /\ UNCHANGED <<buffer, cur, pulled>>
  /\ UNCHANGED <<tableExists, table, op, expander, serviceUrl, input, batch_size,
                 inserts, createCalls, fed, runs>>

\* Statements whose set difference was taken against the table as the call
\* found it, before any of them was executed.
QueryAgainstEntryTable ==
  LET after == [r \in AllRows |->
                  IF r \in NewRows(Last(log).before, buffer)
                  THEN table[r] + 1 ELSE table[r]]
      g == Advance(op, input, StatementBatchSize(batch_size), <<>>, cur, pulled)
  IN /\ table' = after
     /\ inserts' = Append(inserts, [batch |-> buffer, ok |-> TRUE,
                                    before |-> table, after |-> after])
     /\ buffer' = g.buffer
     /\ cur' = g.cur
     /\ pulled' = g.pulled
     /\ pc' = ControlAfter(input, g)
     /\ log' = Finish(pc', "none", after)
     /\ UNCHANGED error

\* client.query(query_string).result() returns: the statement has run.
QuerySucceeds ==
  LET after == InsertStatement(table, buffer)
      g == Advance(op, input, StatementBatchSize(batch_size), <<>>, cur, pulled)
  IN /\ table' = after
     /\ inserts' = Append(inserts, [batch |-> buffer, ok |-> TRUE,
                                    before |-> table, after |-> after])
     /\ buffer' = g.buffer
     /\ cur' = g.cur
     /\ pulled' = g.pulled
     /\ pc' = ControlAfter(input, g)
     /\ log' = Finish(pc', "none", after)
     /\ UNCHANGED error

\* A loop that catches the error of a statement and goes on with the next.
QueryErrorSwallowed ==
  LET g == Advance(op, input, StatementBatchSize(batch_size), <<>>, cur, pulled)
  IN /\ inserts' = Append(inserts, [batch |-> buffer, ok |-> FALSE,
                                    before |-> table, after |-> table])
     /\ buffer' = g.buffer
     /\ cur' = g.cur
     /\ pulled' = g.pulled
     /\ pc' = ControlAfter(input, g)
     /\ log' = Finish(pc', "none", table)
     /\ UNCHANGED <<table, error>>

\* client.query(query_string).result() raises: the statement has added no
\* row, and the exception leaves the loop and the method.
QueryFails ==
  /\ inserts' = Append(inserts, [batch |-> buffer, ok |-> FALSE,
                                 before |-> table, after |-> table])
  /\ pc' = "raised"
  /\ error' = "WarehouseError"
  /\ log' = Finish("raised", "WarehouseError", table)
  /\ UNCHANGED <<table, buffer, cur, pulled>>

\* One turn of the loop: the statement of the batch at hand is rendered and
\* executed, the result is awaited, and the generator is asked for the next.
ExecuteQuery ==
  /\ pc = "running"
  /\ BatchReady(input, StatementBatchSize(batch_size),
                [buffer |-> buffer, cur |-> cur, pulled |-> pulled])
  /\ QuerySucceeds \/ QueryFails
  /\ UNCHANGED <<tableExists, op, expander, serviceUrl, input, batch_size,
                 expanderLog, createCalls, fed, runs>>

Next ==
  \/ \E vss \in Offered, b \in OfferedBatchSizes : MaterializeValueSets(vss, b)
  \/ \E vss \in Offered, e \in {"resolver", "client"}, s \in {"absent", "given"},
        b \in OfferedBatchSizes : MaterializeValueSetExpansion(vss, e, s, b)
  \/ ExpandUrl
  \/ ExecuteQuery

Spec == Init /\ [][Next]_vars

\* A call of materialize_value_sets in which nothing fails, as a function
\* from the provisioned table to the table it leaves: the statements of the
\* generator, executed in turn.
RECURSIVE RunStatements(_, _, _, _)
RunStatements(t, vss, b, g) ==
  IF Exhausted(vss, g) THEN t
  ELSE RunStatements(InsertStatement(t, g.buffer), vss, b,
                     Advance("materialize_value_sets", vss, b, <<>>, g.cur, g.pulled))

OneCall(t, vss, b) ==
  RunStatements(t, vss, b, Advance("materialize_value_sets", vss, b, <<>>, <<>>, 0))

\* ------------------------------------------------- callers that interleave
\* Two independent callers (processes with a manager of their own) call
\* materialize_value_sets once each on the same table. A step is one request
\* to the warehouse; the warehouse does not fail here (Spec has the failures).

\* The value sets a concurrent caller passes: one value set with codes, no
\* more of them than the largest explicit batch size, and without version,
\* as the row is that the table may hold at the start.
RunInputs ==
  {<<vs>> : vs \in {v \in ValueSets : /\ Len(v.contains) \in 1..MaxBatchSize
                                      /\ v.version = NoVersion}}

\* The batch sizes a concurrent caller passes. (With no more than
\* MaxBatchSize rows per caller the default batch size acts as MaxBatchSize
\* does.)
RunBatchSizes == 1..MaxBatchSize

\* create_table without exists_ok: the request for a table that exists fails.
ConflictOnExisting(exists) == IF exists THEN "conflict" ELSE "created"

\* create_table(table, exists_ok=True): the warehouse creates the table for
\* the one request that finds it absent; a request that finds it gets the
\* table that exists.
CreateTableResult(exists) == IF exists THEN "exists" ELSE "created"

\* A loop that sends its statements without waiting for any of them.
NeverWaits(pending) == TRUE

\* .result(): the loop goes on when the statement it has sent has finished.
AwaitsResult(pending) == pending = <<>>

\* The table after a statement has finished that has compared its batch with
\* the rows visible when it ran (seen); t is the table it is added to.
InsertSeenAt(seen, t, batch) ==
  [r \in AllRows |-> IF r \in NewRows(seen, batch) THEN t[r] + 1 ELSE t[r]]

\* Caller w enters materialize_value_sets: the table is provisioned and the
\* generator forms the first batch. The callers are numbered in the order in
\* which they enter.
RunMaterialize(w, vss, b) ==
  LET result == CreateTableResult(tableExists)
      created == CreateTableIfNotExists(tableExists, table)
      g == Advance("materialize_value_sets", vss, StatementBatchSize(b), <<>>, <<>>, 0)
  IN /\ runs[w].pc = "idle"
     /\ \A v \in Runs : v < w => runs[v].pc # "idle"
     /\ IF result = "conflict"
        THEN /\ runs' = [runs EXCEPT ![w] =
                          [@ EXCEPT !.pc = "raised", !.input = vss,
                                    !.batch_size = b, !.provisioned = result,
                                    !.found = [exists |-> tableExists, rows |-> table],
                                    !.got = table]]
             /\ UNCHANGED <<tableExists, table>>
        ELSE /\ tableExists' = created.exists
             /\ table' = created.rows
             /\ runs' = [runs EXCEPT ![w] =
                          [@ EXCEPT !.pc = ControlAfter(vss, g), !.input = vss,
                                    !.batch_size = b, !.provisioned = result,
                                    !.found = [exists |-> tableExists, rows |-> table],
                                    !.got = created.rows,
                                    !.buffer = g.buffer, !.cur = g.cur,
                                    !.pulled = g.pulled]]
     /\ UNCHANGED <<pc, op, expander, serviceUrl, input, batch_size, pulled, cur,
                    buffer, inserts, expanderLog, createCalls, error, log, fed>>

\* client.query(query_string): caller w sends the statement of the batch at
\* hand; the statement compares the batch with the rows visible now. (A
\* statement that starts later than it is sent is a statement sent later:
\* until it starts it has no effect.)
RunQuery(w) ==
  LET r == runs[w]
  IN /\ r.pc = "running"
     /\ AwaitsResult(r.pending)
     /\ BatchReady(r.input, StatementBatchSize(r.batch_size),
                   [buffer |-> r.buffer, cur |-> r.cur, pulled |-> r.pulled])
     /\ runs' = [runs EXCEPT ![w].pending =
                   Append(@, [batch |-> r.buffer, seen |-> table])]
     /\ UNCHANGED <<tableExists, table, pc, op, expander, serviceUrl, input,
                    batch_size, pulled, cur, buffer, inserts, expanderLog,
                    createCalls, error, log, fed>>

\* .result() returns to caller w: the statement has added its rows, and the
\* loop asks the generator for the next batch.
RunResult(w) ==
  LET r == runs[w]
      st == Head(r.pending)
      after == InsertSeenAt(st.seen, table, st.batch)
      g == Advance("materialize_value_sets", r.input,
                   StatementBatchSize(r.batch_size), <<>>, r.cur, r.pulled)
  IN /\ r.pc = "running"
     /\ r.pending # <<>>
     /\ table' = after
     /\ runs' = [runs EXCEPT ![w] =
                  [@ EXCEPT !.pending = Tail(r.pending),
                            !.inserts = Append(r.inserts,
                                               [batch |-> st.batch, seen |-> st.seen,
                                                before |-> table, after |-> after]),
                            !.buffer = g.buffer, !.cur = g.cur, !.pulled = g.pulled,
                            !.pc = ControlAfter(r.input, g)]]
     /\ UNCHANGED <<tableExists, pc, op, expander, serviceUrl, input, batch_size,
                    pulled, cur, buffer, inserts, expanderLog, createCalls, error,
                    log, fed>>

NextConcurrent ==
  \/ \E w \in Runs, vss \in RunInputs, b \in RunBatchSizes :
       RunMaterialize(w, vss, b)
  \/ \E w \in Runs : RunQuery(w)
  \/ \E w \in Runs : RunResult(w)

SpecConcurrent == Init /\ [][NextConcurrent]_vars

\* -------------------------------------------------------------- properties
NoDuplicates(t) == \A r \in AllRows : t[r] <= 1

\* The code rows of an input: per value set, its codes under its url and version.
TaggedRows(vss) ==
  UNION {{<<vs.url, vs.version, c[1], c[2]>> : c \in Range(vs.contains)} :
           vs \in Range(vss)}

Returned(i) == log[i].outcome = "returned"

\* Call i passes the input of call i - 1 again.
Repeats(i) == i \in 2..Len(log) /\ log[i].input = log[i - 1].input

\* C1: a second run of materialize with the same input, after a run that
\* returned, leaves the table as the first run left it, at each of its steps
\* and at its end (it adds no row, also for value sets without version), and
\* no (uri, version, system, code) row is held more than once.
C1_Idempotent ==
  \A i \in 2..Len(log) :
    (Repeats(i) /\ Returned(i - 1)) =>
      /\ log[i].after = log[i - 1].after
      /\ NoDuplicates(log[i].after)

\* Two returned runs of an input with rows the table did not hold, among them
\* rows of a value set without version; the second run has executed inserts.
C1_Witness ==
  /\ Len(log) = 2 /\ Repeats(2) /\ Returned(1) /\ Returned(2)
  /\ op = "materialize_value_sets"
  /\ inserts # <<>>
  /\ \E r \in TaggedRows(input) : r[2] = NoVersion /\ log[1].before[r] = 0
  /\ \E r \in TaggedRows(input) : r[2] # NoVersion

\* C2: when a call has returned, the rows of the table are the rows it held
\* at the call's entry together with exactly the code rows of the input, each
\* under the url and version of its own value set.
C2_RowsAreInputRows ==
  \A i \in 1..Len(log) :
    Returned(i) =>
      RowSet(log[i].after) = RowSet(log[i].before) \cup TaggedRows(log[i].input)

\* A returned call on a table that held a row which is no row of the input,
\* with two value sets of different versions that have codes.
C2_Witness ==
  /\ Len(log) = 1 /\ Returned(1)
  /\ RowSet(log[1].before) \ TaggedRows(input) # {}
  /\ \E r1, r2 \in TaggedRows(input) : r1[2] # r2[2]
  /\ Len(input) >= 2

ScenarioValueSet ==
  [url |-> "http://x/vs1", version |-> "1",
   contains |-> <<(<<"sys1", "a">>), (<<"sys1", "a">>), (<<"sys2", "b">>)>>]

RowCount(t) == t[<<"http://x/vs1", NoVersion, "sys1", "a">>]
               + t[<<"http://x/vs1", NoVersion, "sys2", "b">>]
               + t[<<"http://x/vs1", "1", "sys1", "a">>]
               + t[<<"http://x/vs1", "1", "sys2", "b">>]

InScenario ==
  /\ Len(log) = 1 /\ Returned(1)
  /\ log[1].before = EmptyTable
  /\ input = <<ScenarioValueSet>>
  /\ batch_size = DefaultBatchSize

\* C3: an executed insert adds one physical row for each distinct row of its
\* batch that the table does not hold, and nothing else; from an empty table
\* the value set with codes (sys1,a), (sys1,a), (sys2,b) and batch_size 500
\* leaves exactly the two rows (sys1,a) and (sys2,b) of that value set.
C3_BatchAddsDistinctNewRows ==
  /\ \A i \in 1..Len(inserts) :
       inserts[i].ok =>
         \A r \in AllRows :
           inserts[i].after[r] =
             inserts[i].before[r]
               + (IF r \in Range(inserts[i].batch) /\ inserts[i].before[r] = 0
                  THEN 1 ELSE 0)
  /\ InScenario =>
       /\ RowCount(table) = 2
       /\ table[<<"http://x/vs1", "1", "sys1", "a">>] = 1
       /\ table[<<"http://x/vs1", "1", "sys2", "b">>] = 1

\* The scenario has run: one insert of a batch with a repeated row.
C3_Witness ==
  /\ InScenario
  /\ Len(inserts) = 1 /\ inserts[1].ok
  /\ Len(inserts[1].batch) = 3

\* C4: no insert statement of a call carries more than batch_size rows.
C4_BatchWithinBatchSize ==
  \A i \in 1..Len(inserts) : Len(inserts[i].batch) <= batch_size

\* A call whose input has more rows than batch_size has executed a full batch.
C4_Witness ==
  /\ inserts # <<>>
  /\ Len(RowStream(input)) > batch_size
  /\ Len(inserts[1].batch) = batch_size
  /\ batch_size > 1

CeilDiv(n, b) == (n + b - 1) \div b

RECURSIVE CodeCount(_)
CodeCount(vss) ==
  IF vss = <<>> THEN 0 ELSE Len(Head(vss).contains) + CodeCount(Tail(vss))

RECURSIVE Batches(_, _)
Batches(rows, b) ==
  IF rows = <<>> THEN <<>>
  ELSE LET k == Min(b, Len(rows))
       IN <<SubSeq(rows, 1, k)>> \o Batches(SubSeq(rows, k + 1, Len(rows)), b)

Committed == {i \in 1..Len(inserts) : inserts[i].ok}

\* C6: the inserts of a call are a prefix of the batch sequence of its input;
\* only the last of them can have failed, and then the call has ended with
\* the warehouse error; the rows of the inserts before it are in the table,
\* and the table holds nothing but the rows it held at the call's entry and
\* the rows of the inserts that succeeded.
C6_CommittedPrefix ==
  log # <<>> =>
    LET sequence == Batches(RowStream(input), batch_size)
    IN /\ Len(inserts) <= Len(sequence)
       /\ \A i \in 1..Len(inserts) :
            /\ inserts[i].batch = sequence[i]
            /\ inserts[i].ok => Range(inserts[i].batch) \subseteq RowSet(table)
            /\ ~inserts[i].ok =>
                 /\ i = Len(inserts)
                 /\ pc = "raised"
                 /\ error = "WarehouseError"
       /\ RowSet(table) =
            RowSet(Last(log).before)
              \cup UNION {Range(inserts[i].batch) : i \in Committed}

\* The second of three batches has failed: the row of the first is in the
\* table, the row of the third is not.
C6_Witness ==
  /\ Len(Batches(RowStream(input), batch_size)) = 3
  /\ Len(inserts) = 2 /\ inserts[1].ok /\ ~inserts[2].ok
  /\ pc = "raised"
  /\ \A r \in Range(Batches(RowStream(input), batch_size)[1]) : table[r] = 1
  /\ \A r \in Range(Batches(RowStream(input), batch_size)[3]) : table[r] = 0

RejectedCall ==
  /\ log # <<>>
  /\ op = "materialize_value_set_expansion"
  /\ serviceUrl = "given"
  /\ expander # "client"

\* C7: a call of materialize_value_set_expansion with a service url and an
\* expander that is no service client ends with TypeError; no url has been
\* expanded, create_table has not been called, no insert has been executed
\* and the table is as it was at the call's entry.
C7_ValidationFailsFast ==
  RejectedCall =>
    /\ pc = "raised"
    /\ error = "TypeError"
    /\ expanderLog = <<>>
    /\ pulled = 0
    /\ createCalls = 0
    /\ inserts = <<>>
    /\ table = Last(log).before

\* A rejected call whose urls have codes to insert.
C7_Witness ==
  /\ RejectedCall
  /\ expander = "resolver"
  /\ TaggedRows(input) \ RowSet(table) # {}
  /\ ~tableExists

RECURSIVE InputsUpTo(_)
InputsUpTo(i) == IF i = 0 THEN <<>> ELSE InputsUpTo(i - 1) \o log[i].input

\* The value sets have no code row in common.
NoOverlap(vss) ==
  \A i, j \in 1..Len(vss) :
    i < j => TaggedRows(<<vss[i]>>) \cap TaggedRows(<<vss[j]>>) = {}

\* Every call so far has returned, and each has passed value sets of its own.
SplitRun ==
  /\ Len(log) >= 2
  /\ \A i \in 1..Len(log) : Returned(i)
  /\ \A i \in 2..Len(log) : ~Repeats(i)
  /\ NoOverlap(InputsUpTo(Len(log)))

\* C8: when value sets without common codes have been materialized in
\* successive calls, the table holds the rows that one call with all of them,
\* in the same order and from the same starting table, leaves.
C8_SplitInvariance ==
  SplitRun =>
    RowSet(table) = RowSet(OneCall(log[1].before, InputsUpTo(Len(log)), batch_size))

\* [A, B] and then [C] have been materialized, each with codes of its own,
\* into a table that held a row.
C8_Witness ==
  /\ SplitRun
  /\ Len(log) = 2
  /\ Len(log[1].input) = 2 /\ Len(log[2].input) = 1
  /\ \A vs \in Range(InputsUpTo(2)) : vs.contains # <<>>
  /\ log[1].before # EmptyTable

\* C9: no step removes a row of the table or lowers the number of its
\* copies, and no step removes the table.
C9_AppendOnly ==
  [][/\ \A r \in AllRows : table'[r] >= table[r]
     /\ tableExists => tableExists']_vars

\* After a first call, a second call on the table that already held a row has
\* failed with rows committed.
C9_Witness ==
  /\ Len(log) = 2
  /\ pc = "raised"
  /\ log[1].before # EmptyTable
  /\ log[1].after # log[1].before
  /\ log[2].after # log[2].before
  /\ \A r \in AllRows : table[r] >= log[1].before[r]

\* Call i has failed in the warehouse and call i + 1 has passed its input
\* again and returned.
Resumed(i) ==
  /\ Repeats(i)
  /\ log[i - 1].outcome = "raised"
  /\ log[i - 1].error = "WarehouseError"
  /\ Returned(i)

\* C10: when a call has failed in the warehouse and the call after it, with
\* the same input, has returned, the table is, row for row and copy for copy,
\* the table that one call without failure leaves from the table the failed
\* call started with.
C10_ResumeAfterFailure ==
  \A i \in 2..Len(log) :
    Resumed(i) =>
      log[i].after =
        OneCall(log[i - 1].before, log[i].input, log[i].batch_size)

\* The failed call had committed a batch, and the re-run has added the rest.
C10_Witness ==
  /\ Len(log) = 2 /\ Resumed(2)
  /\ log[1].after # log[1].before
  /\ log[2].after # log[2].before
  /\ log[1].before # EmptyTable

UrlCall == log # <<>> /\ op = "materialize_value_set_expansion"

\* C11: in a call of materialize_value_set_expansion the expander has
\* received one request for each url taken so far, in the order of urls and
\* none twice: all of them expand_value_set_url_using_service when a service
\* url was given, all of them expand_value_set_url otherwise (resolver or
\* client); a returned call has requested every url; materialize_value_sets
\* requests none.
C11_ExpansionDispatch ==
  /\ UrlCall =>
       /\ Len(expanderLog) = pulled + (IF error = "ExpansionError" THEN 1 ELSE 0)
       /\ \A i \in 1..Len(expanderLog) :
            expanderLog[i] =
              <<(IF serviceUrl = "given"
                 THEN "expand_value_set_url_using_service"
                 ELSE "expand_value_set_url"), input[i].url, i>>
       /\ pc = "returned" => Len(expanderLog) = Len(input)
  /\ ~UrlCall => expanderLog = <<>>

\* A service client without service url has expanded two urls with different
\* expansions, and the call has returned.
C11_Witness ==
  /\ UrlCall
  /\ expander = "client" /\ serviceUrl = "absent"
  /\ pc = "returned"
  /\ Len(input) = 2 /\ input[1] # input[2]
  /\ Len(expanderLog) = 2

\* A call that has passed the check of its arguments.
Invocation == log # <<>> /\ ~RejectedCall

\* C12: a call that has passed the check of its arguments has called
\* create_table exactly once; when a url has been expanded, a value set taken
\* or an insert executed, that call has been made and the table exists; a
\* call whose create_table has left the table absent has ended with the
\* error, with no url expanded and no insert executed.
C12_ProvisionedOnceBeforeWrites ==
  /\ Invocation => createCalls = 1
  /\ (inserts # <<>> \/ expanderLog # <<>> \/ pulled > 0) =>
       createCalls = 1 /\ tableExists
  /\ (Invocation /\ ~tableExists) =>
       /\ pc = "raised"
       /\ error = "WarehouseError"
       /\ inserts = <<>>
       /\ expanderLog = <<>>
       /\ pulled = 0
       /\ table = EmptyTable

\* A call with urls has found no table, provisioned it, expanded two urls
\* and executed inserts.
C12_Witness ==
  /\ UrlCall
  /\ Len(log) = 1 /\ log[1].before = EmptyTable
  /\ createCalls = 1 /\ tableExists
  /\ Len(expanderLog) = 2
  /\ inserts # <<>>

\* The number of code rows of the first i value sets of the call.
RowsBefore(i) == CodeCount(SubSeq(input, 1, i))

RECURSIVE Flatten(_)
Flatten(seqs) == IF seqs = <<>> THEN <<>> ELSE Head(seqs) \o Flatten(Tail(seqs))

\* q is what is left of p after some of its first elements.
IsSuffix(q, p) ==
  Len(q) <= Len(p) /\ q = SubSeq(p, Len(p) - Len(q) + 1, Len(p))

\* C14: in a call of materialize_value_set_expansion a url is expanded only
\* when the batch at hand has room: when url i has been expanded and the k
\* batches before the one of its first row are full of rows of earlier urls,
\* the inserts of those k batches have been executed; the engine holds the
\* rows of one batch that has not been executed, at most batch_size of them,
\* and what is left of the one value set it is consuming: the rows of the
\* urls expanded so far are the rows of the committed batches, then these.
C14_LazyInterleaving ==
  UrlCall =>
    /\ \A i \in 1..Len(expanderLog) :
         Cardinality(Committed) >= RowsBefore(i - 1) \div batch_size
    /\ Len(buffer) <= batch_size
    /\ pulled = 0 => cur = <<>>
    /\ pulled > 0 => IsSuffix(cur, RowsOf(input[pulled]))
    /\ RowStream(SubSeq(input, 1, pulled)) =
         Flatten([i \in 1..Cardinality(Committed) |-> inserts[i].batch])
           \o buffer \o cur

\* With batch_size 1 the second url has been expanded after the two inserts
\* of the two codes of the first.
C14_Witness ==
  /\ UrlCall
  /\ batch_size = 1
  /\ Len(input) = 2 /\ Len(input[1].contains) = 2
  /\ Len(expanderLog) = 2 /\ pulled = 2
  /\ Len(inserts) = 2
  /\ buffer # <<>>

\* C15: when the expansion of a url has failed, the call has ended with that
\* error; the failed request is the only one for its url and the last one
\* of the call; every insert of the call was executed before it and only
\* for batches that were full, the rows of the batch at hand have not been
\* inserted by a statement of their own, and the table holds the rows it
\* held at the call's entry and the rows of the committed batches.
C15_ExpansionFailureAborts ==
  (UrlCall /\ error = "ExpansionError") =>
    /\ pc = "raised"
    /\ Last(log).outcome = "raised" /\ Last(log).error = "ExpansionError"
    /\ Len(expanderLog) = pulled + 1
    /\ \A i, j \in 1..Len(expanderLog) : expanderLog[i][3] = expanderLog[j][3] => i = j
    /\ \A i \in 1..Len(inserts) :
         /\ inserts[i].ok
         /\ Len(inserts[i].batch) = batch_size
         /\ Range(inserts[i].batch) \subseteq RowSet(table)
    /\ Len(inserts) = RowsBefore(pulled) \div batch_size
    /\ Len(buffer) = RowsBefore(pulled) % batch_size
    /\ RowSet(table) =
         RowSet(Last(log).before) \cup UNION {Range(inserts[i].batch) : i \in Committed}
    /\ table = Last(log).after

\* The expansion of the second of three urls has failed after the batch of
\* the first was committed.
C15_Witness ==
  /\ UrlCall /\ error = "ExpansionError"
  /\ Len(input) = 3 /\ pulled = 1
  /\ Len(inserts) = 1
  /\ table # Last(log).before
  /\ TaggedRows(<<input[3]>>) \ RowSet(table) # {}

\* r and q are the same code of the same value set uri under two versions.
OtherVersion(r, q) == r[1] = q[1] /\ r[3] = q[3] /\ r[4] = q[4] /\ r[2] # q[2]

\* C18: when a call has returned, the table holds exactly one row for every
\* version under which the input carries a code, also when two value sets
\* of the input share uri, system and code and differ in version only (one
\* of them possibly without version); and an executed insert adds the row of
\* its batch that the table lacks whether or not the table holds the same
\* code under another version.
C18_VersionInKey ==
  /\ \A i \in 1..Len(log) :
       Returned(i) => \A r \in TaggedRows(log[i].input) : log[i].after[r] = 1
  /\ \A i \in Committed :
       \A r \in Range(inserts[i].batch) :
         (inserts[i].before[r] = 0
            /\ \E q \in AllRows : OtherVersion(r, q) /\ inserts[i].before[q] > 0)
         => inserts[i].after[r] = 1

\* The table held a code without version; a call with two value sets that
\* carry this code, one under version "1" and one without version, has
\* returned, and the table holds the code once under either version.
C18_Witness ==
  /\ Len(log) = 1 /\ Returned(1)
  /\ log[1].before[PreRow] = 1
  /\ \E i, j \in 1..Len(input) :
       /\ input[i].version = "1" /\ input[j].version = NoVersion
       /\ <<"sys1", "a">> \in Range(input[i].contains)
       /\ <<"sys1", "a">> \in Range(input[j].contains)
  /\ table[PreRow] = 1
  /\ table[<<"http://x/vs1", "1", "sys1", "a">>] = 1

\* C19: the table never holds a row twice; when a row is in two batches of a
\* call, the statement of the later batch has found the table as the
\* statement of the earlier batch left it, with the row in it, and has not
\* added the row again.
C19_NoCrossBatchDuplicates ==
  /\ NoDuplicates(table)
  /\ \A i, j \in Committed :
       i < j =>
         /\ \A r \in AllRows : inserts[j].before[r] >= inserts[i].after[r]
         /\ \A r \in Range(inserts[i].batch) \cap Range(inserts[j].batch) :
              /\ inserts[j].before[r] = 1
              /\ inserts[j].after[r] = 1

\* With batch_size 1 a call whose input carries a row twice, the table not
\* holding it, has executed two inserts of that row and returned.
C19_Witness ==
  /\ pc = "returned"
  /\ batch_size = 1
  /\ Len(inserts) >= 2
  /\ inserts[1].ok /\ inserts[2].ok
  /\ inserts[1].batch = inserts[2].batch
  /\ Last(log).before[inserts[1].batch[1]] = 0
  /\ table[inserts[1].batch[1]] = 1

\* The statements caller w has sent and not seen finished.
InFlight(w) == runs[w].pending

\* Table t holds every row at least as often as table u.
Covers(t, u) == \A r \in AllRows : t[r] >= u[r]

\* C13: a caller has at most one statement in flight; the statements that
\* have finished and the one in flight are, in this order, the first
\* batches of the batch sequence of the input; and a statement was sent when
\* the one before it had finished: it has seen the table with everything in
\* it that the one before had left.
C13_OneInsertInFlight ==
  \A w \in Runs :
    LET r == runs[w]
        sequence == Batches(RowStream(r.input), r.batch_size)
        sent == [i \in 1..Len(r.inserts) |-> r.inserts[i].batch]
                  \o [i \in 1..Len(r.pending) |-> r.pending[i].batch]
    IN /\ Len(InFlight(w)) <= 1
       /\ Len(sent) <= Len(sequence)
       /\ \A i \in 1..Len(sent) : sent[i] = sequence[i]
       /\ \A i \in 2..Len(r.inserts) :
            Covers(r.inserts[i].seen, r.inserts[i - 1].after)
       /\ (r.pending # <<>> /\ r.inserts # <<>>) =>
            Covers(r.pending[1].seen, Last(r.inserts).after)

\* A caller with two batches has its second statement in flight, the first
\* having added a row, while the other caller has a statement in flight.
C13_Witness ==
  \E w, v \in Runs :
    /\ w # v
    /\ Len(runs[w].inserts) = 1
    /\ runs[w].inserts[1].after # runs[w].inserts[1].before
    /\ Len(InFlight(w)) = 1
    /\ Len(InFlight(v)) = 1

Provisioned(w) == runs[w].provisioned # "none"

\* C16: no call ends with an error of create_table; at most one caller has
\* created the table, and when a caller found it absent and all have passed
\* provisioning, exactly one has, the others having got the table that
\* exists; a caller that found the table has left its rows as they were;
\* every caller goes on to its statements, and has executed the statements
\* of all its batches when it returns.
C16_ConcurrentProvisioning ==
  /\ \A w \in Runs :
       /\ runs[w].pc # "raised"
       /\ runs[w].provisioned \in {"none", "created", "exists"}
       /\ Provisioned(w) =>
            /\ tableExists
            /\ runs[w].pc \in {"running", "returned"}
            /\ runs[w].provisioned = "created" <=> ~runs[w].found.exists
            /\ runs[w].found.exists => runs[w].got = runs[w].found.rows
            /\ runs[w].pc = "returned" =>
                 Len(runs[w].inserts) =
                   Len(Batches(RowStream(runs[w].input), runs[w].batch_size))
  /\ Cardinality({w \in Runs : runs[w].provisioned = "created"}) <= 1
  /\ ((\A w \in Runs : Provisioned(w)) /\ (\E w \in Runs : ~runs[w].found.exists)) =>
       Cardinality({w \in Runs : runs[w].provisioned = "created"}) = 1

\* The table was absent; one caller has created it and inserted a row, the
\* other has then got the table with that row in it, and both have returned
\* with their statements executed.
C16_Witness ==
  \E w, v \in Runs :
    /\ runs[w].provisioned = "created"
    /\ runs[v].provisioned = "exists"
    /\ runs[v].found.rows # EmptyTable
    /\ runs[v].got = runs[v].found.rows
    /\ runs[w].pc = "returned" /\ runs[v].pc = "returned"
    /\ runs[w].inserts # <<>> /\ runs[v].inserts # <<>>

\* The inserts of caller w that have added row r.
Adding(w, r) ==
  {i \in 1..Len(runs[w].inserts) :
     runs[w].inserts[i].after[r] > runs[w].inserts[i].before[r]}

\* C17: with two callers at work on the table, a finished insert has added
\* one copy of each row of its batch that was not visible when its statement
\* ran, and no copy of any other row; so a row is in the table twice only
\* when statements of two callers have added it, neither having seen it,
\* and a caller adds no row twice and no row the table held at the start.
C17_DedupAgainstVisibleRows ==
  /\ \A w \in Runs :
       \A i \in 1..Len(runs[w].inserts) :
         LET ins == runs[w].inserts[i]
         IN \A r \in AllRows :
              ins.after[r] =
                ins.before[r]
                  + (IF r \in Range(ins.batch) /\ ins.seen[r] = 0 THEN 1 ELSE 0)
  /\ \A r \in AllRows :
       /\ \A w \in Runs : Cardinality(Adding(w, r)) <= 1
       /\ table[r] > 1 =>
            /\ table[r] = Cardinality({w \in Runs : Adding(w, r) # {}})
            /\ \A w \in Runs :
                 \A i \in Adding(w, r) : runs[w].inserts[i].seen[r] = 0
       /\ (\E w \in Runs : Provisioned(w) /\ runs[w].found.rows[r] > 0) =>
            table[r] = 1

\* Both callers have inserted the same row, neither having seen the other's;
\* a second row, which one caller had committed before the statement of the
\* other ran, is in the table once.
C17_Witness ==
  /\ \A w \in Runs : runs[w].pc = "returned"
  /\ \E r, q \in AllRows :
       /\ table[r] = 2
       /\ table[q] = 1
       /\ \A w \in Runs : q \in TaggedRows(runs[w].input)
       /\ \E w \in Runs : Adding(w, q) = {}

====
